---------------------------- MODULE Spec2Model ----------------------------
(***************************************************************************)
(* Authentication and session layer of the band-practice scheduler:        *)
(*   - the Express/Prisma auth controller (register, login, refreshToken,  *)
(*     logout), the authenticateUser middleware and the error handler;     *)
(*   - the Redux auth slice of the React client (thunks and reducers).     *)
(* Every await of a handler is one step, so that concurrent requests       *)
(* interleave at the database calls exactly where the code suspends.       *)
(***************************************************************************)
EXTENDS Integers, Sequences, FiniteSets, TLC

(***************************************************************************)
(* Bounds of the model                                                     *)
(***************************************************************************)
\* requests the server handles at the same time
MaxInFlight == 2
\* requests the server receives in all
MaxCalls == 3
\* clock advances
MaxTicks == 1
\* thunks of the client awaiting their response at the same time
MaxThunks == 2
\* bands created
MaxBands == 2

(***************************************************************************)
(* Program constants                                                       *)
(***************************************************************************)
\* expiresIn: '1h', in seconds
AccessTTL == 3600
\* expiresIn: '7d' and expiresAt = now + 7 days, in seconds
RefreshTTL == 604800

AccessSecret == "JWT_SECRET"
RefreshSecret == "JWT_REFRESH_SECRET"

\* enum UserRole of the Prisma schema
UserRole == {"ADMIN", "MANAGER", "MEMBER"}

\* the values process.env.NODE_ENV may have ("" is unset)
NodeEnvs == {"production", "development", ""}

(***************************************************************************)
(* Inputs                                                                  *)
(***************************************************************************)
Emails == {"a@x.com", "b@x.com"}
BadEmail == "not-an-email"

\* a password is its text and the facts the validators look at
PwGood == [text |-> "Abcd1234", len |-> 8, lower |-> TRUE, upper |-> TRUE, digit |-> TRUE]
PwOther == [text |-> "Wxyz5678", len |-> 8, lower |-> TRUE, upper |-> TRUE, digit |-> TRUE]
PwWeak == [text |-> "abcd123", len |-> 7, lower |-> TRUE, upper |-> FALSE, digit |-> TRUE]

\* user ids (uuid) in the order the database hands them out
UserIds == <<"u1", "u2", "u3">>
NoUser == "none"

\* amounts by which the clock (seconds) advances in one step
Jumps == {1, AccessTTL}

(***************************************************************************)
(* Token codec (jsonwebtoken)                                              *)
(***************************************************************************)
\* jwt.sign(payload, secret, {expiresIn}): iat is the current second, the
\* signature is a function of payload, iat, exp and the secret
Sign(payload, secret, ttl, t) ==
    [payload |-> payload, secret |-> secret, iat |-> t, exp |-> t + ttl]

\* the header carries no token / the body has no refreshToken field
NoToken == [payload |-> [id |-> NoUser], secret |-> "absent", iat |-> 0, exp |-> 0]
\* a string that is no token signed with either secret
Garbage == [payload |-> [id |-> NoUser], secret |-> "forged", iat |-> 0, exp |-> 0]

\* jwt.verify(token, secret) at second t: the name of the error thrown, or "ok"
Verify(token, secret, t) ==
    IF token.secret # secret THEN "JsonWebTokenError"
    ELSE IF t >= token.exp THEN "TokenExpiredError"
    ELSE "ok"

\* the role register writes, and the role of enum UserRole a new identity has
RegisterRole == "USER"
MemberRole == "MEMBER"

generateTokens_OneSecret(user, t) ==
    [accessToken |-> Sign([id |-> user.id, email |-> user.email, role |-> user.role],
                          AccessSecret, AccessTTL, t),
     refreshToken |-> Sign([id |-> user.id], AccessSecret, RefreshTTL, t)]
generateTokens(user, t) ==
    [accessToken |-> Sign([id |-> user.id, email |-> user.email, role |-> user.role],
                          AccessSecret, AccessTTL, t),
     refreshToken |-> Sign([id |-> user.id], RefreshSecret, RefreshTTL, t)]

NoTokens == [accessToken |-> NoToken, refreshToken |-> NoToken]

\* bcrypt.hash / bcrypt.compare
Hash(pw) == <<"bcrypt", pw.text>>
Compare(pw, hashed) == Hash(pw) = hashed

(***************************************************************************)
(* Request validation (express-validator chains of authRoutes)             *)
(***************************************************************************)
IsEmail(e) == e # BadEmail
NotEmpty(s) == s # ""
PasswordOk(pw) == pw.len >= 8 /\ pw.lower /\ pw.upper /\ pw.digit

RegisterValid(r) ==
    IsEmail(r.email) /\ PasswordOk(r.password) /\ NotEmpty(r.firstName) /\ NotEmpty(r.lastName)
LoginValid(r) == IsEmail(r.email) /\ r.password.len > 0
RefreshValid(r) == r.token # NoToken

\* validateRequest: 400 with the formatted errors
ValidationFailed ==
    [status |-> 400, body |-> [success |-> FALSE, message |-> "Validation failed", errors |-> TRUE]]

(***************************************************************************)
(* Errors and the error handler (middleware/errorHandler.ts)               *)
(***************************************************************************)
AuthError(msg) == [name |-> "AuthError", message |-> msg]
ValidationError(msg) == [name |-> "ValidationError", message |-> msg]
\* what Prisma throws: P2002 (unique constraint) and P2025 (record not found)
PrismaKnownError(msg) == [name |-> "PrismaClientKnownRequestError", message |-> msg]
PrismaValidationError(msg) == [name |-> "PrismaClientValidationError", message |-> msg]
ForbiddenError(msg) == [name |-> "ForbiddenError", message |-> msg]
NotFoundError(msg) == [name |-> "NotFoundError", message |-> msg]
ConflictError(msg) == [name |-> "ConflictError", message |-> msg]
NoThrow == [name |-> "", message |-> ""]

\* the statusCode the error classes of utils/errors.ts carry
statusCode(name) ==
    CASE name = "ValidationError" -> 400
      [] name = "AuthError" -> 401
      [] name = "ForbiddenError" -> 403
      [] name = "NotFoundError" -> 404
      [] name = "ConflictError" -> 409
      [] OTHER -> 500

errorHandler(err, env) ==
    IF err.name = "AuthError"
    THEN [status |-> 401,
          body |-> [success |-> FALSE,
                    message |-> IF err.message # "" THEN err.message ELSE "Authentication error"]]
    ELSE IF err.name = "PrismaClientKnownRequestError"
    THEN [status |-> 400,
          body |-> [success |-> FALSE, message |-> "Database operation failed", error |-> err.message]]
    ELSE IF err.name = "PrismaClientValidationError"
    THEN [status |-> 400,
          body |-> [success |-> FALSE, message |-> "Invalid data provided", error |-> err.message]]
    ELSE IF err.name = "JsonWebTokenError"
    THEN [status |-> 401, body |-> [success |-> FALSE, message |-> "Invalid token"]]
    ELSE IF err.name = "TokenExpiredError"
    THEN [status |-> 401, body |-> [success |-> FALSE, message |-> "Token expired"]]
    ELSE IF env # "production"
    THEN [status |-> 500,
          body |-> [success |-> FALSE, message |-> "Internal server error", error |-> err.message]]
    ELSE [status |-> 500, body |-> [success |-> FALSE, message |-> "Internal server error"]]

NoResponse == [status |-> 0, body |-> [success |-> FALSE, message |-> ""]]

(***************************************************************************)
(* Values of the client                                                    *)
(***************************************************************************)
\* JavaScript null and undefined where a token string is expected, the string
\* localStorage makes of undefined, and a string that is no JWT
NullTok == [payload |-> [id |-> NoUser], secret |-> "null", iat |-> 0, exp |-> 0]
UndefTok == [payload |-> [id |-> NoUser], secret |-> "undefined", iat |-> 0, exp |-> 0]
StrUndefTok == [payload |-> [id |-> NoUser], secret |-> "'undefined'", iat |-> 0, exp |-> 0]
Malformed == [payload |-> [id |-> NoUser], secret |-> "malformed", iat |-> 0, exp |-> 0]

Undefined == "undefined"
NoError == "null"
NullUser ==
    [id |-> "null", email |-> "null", firstName |-> "null", lastName |-> "null", role |-> "null"]

\* Boolean(x) and !x of a token-valued expression
Truthy(t) == t \notin {NullTok, UndefTok, NoToken}

\* localStorage.setItem(key, value): the value is stored as a string
String(t) == IF t = UndefTok THEN StrUndefTok ELSE t

\* jwtDecode(token) throws on what is not a string of three base64 parts
Decodable(t) == t.secret \notin {"null", "undefined", "'undefined'", "malformed", "absent"}

\* a property of a decoded payload or of a response body
Prop(obj, f) == IF f \in DOMAIN obj THEN obj[f] ELSE Undefined
TokenProp(obj, f) == IF f \in DOMAIN obj THEN obj[f] ELSE UndefTok

(***************************************************************************)
(* State                                                                   *)
(***************************************************************************)
VARIABLES
    users,      \* table users: records id, email, password (hash), role, active
    rows,       \* table refreshToken: records id, token, userId, expiresAt
    now,        \* the clock, in seconds
    ticks,      \* clock advances so far
    calls,      \* requests received so far
    nodeEnv,    \* process.env.NODE_ENV
    reqs,       \* the requests being handled, each at one of its awaits
    last,       \* the request answered last, with its response
    spent,      \* refresh tokens a refresh call has redeemed
    session,    \* the client's auth slice (AuthState)
    storage,    \* the client's localStorage, keys token and refreshToken
    thunks,     \* the client's dispatched thunks awaiting their HTTP response
    event,      \* the type of the action the auth slice reduced last
    bands,      \* table band: records id, name, createdById
    members,    \* table bandMember: records bandId, userId, role
    gate        \* the request to a protected band route, at one of its stages

serverVars == <<users, rows, now, ticks, calls, nodeEnv, reqs, last, spent>>
clientVars == <<session, storage, thunks, event>>
accessVars == <<bands, members, gate>>
vars == <<users, rows, now, ticks, calls, nodeEnv, reqs, last, spent,
          session, storage, thunks, event, bands, members, gate>>

(***************************************************************************)
(* Requests                                                                *)
(***************************************************************************)
\* A request: what the caller sent (kind, body fields, bearer token), where
\* its handler stands (pc) and the handler's locals.  The last six fields
\* record facts about the run (inactive: the identity the request is made
\* for, named by its email, bearer token or refresh token, was inactive when
\* the request arrived).
NoRequest ==
    [kind |-> "none", email |-> "", password |-> PwGood, firstName |-> "", lastName |-> "",
     token |-> NoToken, bearer |-> NoToken,
     pc |-> "done", uid |-> NoUser, row |-> 0, tokens |-> NoTokens,
     replay |-> FALSE, regd |-> FALSE, rivalWon |-> FALSE, deleted |-> FALSE, wrote |-> FALSE,
     inactive |-> FALSE]

Request(kind, email, password, firstName, lastName, token, bearer) ==
    [NoRequest EXCEPT
       !.kind = kind, !.email = email, !.password = password,
       !.firstName = firstName, !.lastName = lastName,
       !.token = token, !.bearer = bearer, !.pc = "start",
       !.replay = token \in spent,
       !.regd = \E u \in users : u.email = email,
       !.inactive = \E u \in users :
                       /\ ~u.active
                       /\ \/ u.email = email
                          \/ u.id = bearer.payload.id
                          \/ kind = "refresh" /\ u.id = token.payload.id]

\* last holds a request and its response in the state its answer leaves
Answered(r, response) ==
    [req |-> [NoRequest EXCEPT !.kind = r.kind, !.token = r.token, !.bearer = r.bearer,
                               !.email = r.email,
                               !.replay = r.replay, !.regd = r.regd,
                               !.rivalWon = r.rivalWon, !.deleted = r.deleted,
                               !.wrote = r.wrote, !.inactive = r.inactive],
     resp |-> response]
NoAnswer == [req |-> NoRequest, resp |-> NoResponse]

RemoveAt(s, i) == SubSeq(s, 1, i - 1) \o SubSeq(s, i + 1, Len(s))

RefreshWon(r, response) == r.kind = "refresh" /\ response.status = 200

\* res.status(..).json(..): the request leaves the server with its response
Respond(i, response) ==
    LET r == reqs[i]
        rest == RemoveAt(reqs, i)
    IN  /\ last' = Answered(r, response)
        /\ spent' = IF RefreshWon(r, response) THEN spent \cup {r.token} ELSE spent
        /\ reqs' = [j \in 1..Len(rest) |->
                      IF RefreshWon(r, response) /\ rest[j].kind = "refresh"
                         /\ rest[j].token = r.token
                      THEN [rest[j] EXCEPT !.rivalWon = TRUE]
                      ELSE rest[j]]
        /\ UNCHANGED <<clientVars, accessVars>>

\* a request answered before its handler reaches an await
RespondAtOnce(r, response) ==
    /\ last' = Answered(r, response)
    /\ UNCHANGED <<reqs, spent>>

\* next(error): the error handler answers
Throw(i, err) == Respond(i, errorHandler(err, nodeEnv))

Proceed(i, r) ==
    /\ reqs' = [reqs EXCEPT ![i] = r]
    /\ last' = NoAnswer
    /\ UNCHANGED spent
    /\ UNCHANGED <<clientVars, accessVars>>

Accept(r) ==
    /\ reqs' = Append(reqs, r)
    /\ last' = NoAnswer
    /\ UNCHANGED spent

\* the server takes another request
Room == Len(reqs) < MaxInFlight /\ calls < MaxCalls

\* the id (uuid) of a new row: one that no row and no handler holds
RowIds == 1..(MaxCalls + 1)
FreshRow ==
    CHOOSE n \in RowIds :
        /\ n \notin {x.id : x \in rows} \cup {reqs[i].row : i \in 1..Len(reqs)}
        /\ \A m \in RowIds :
              m \notin {x.id : x \in rows} \cup {reqs[i].row : i \in 1..Len(reqs)} => n <= m

NewRow(token, userId) ==
    [id |-> FreshRow, token |-> token, userId |-> userId, expiresAt |-> now + RefreshTTL]

UserByEmail(e) == {u \in users : u.email = e}
UserById(id) == {u \in users : u.id = id}

PublicUser(u) ==
    [id |-> u.id, email |-> u.email, firstName |-> u.firstName,
     lastName |-> u.lastName, role |-> u.role]

Ok(status, message) == [status |-> status, body |-> [success |-> TRUE, message |-> message]]

OkWithUser(status, message, u, tokens) ==
    [status |-> status,
     body |-> [success |-> TRUE, message |-> message,
               data |-> [user |-> PublicUser(u),
                         accessToken |-> tokens.accessToken,
                         refreshToken |-> tokens.refreshToken]]]

OkWithTokens(status, message, tokens) ==
    [status |-> status,
     body |-> [success |-> TRUE, message |-> message,
               data |-> [accessToken |-> tokens.accessToken,
                         refreshToken |-> tokens.refreshToken]]]

(***************************************************************************)
(* POST /api/auth/register                                                 *)
(***************************************************************************)
\* the validator chain and validateRequest, then register up to findUnique
StartRegister(e, pw, fn, ln) ==
    /\ Room
    /\ LET r == Request("register", e, pw, fn, ln, NoToken, NoToken)
       IN  IF RegisterValid(r)
           THEN Accept([r EXCEPT !.pc = "reg_find"])
           ELSE RespondAtOnce(r, ValidationFailed)
    /\ calls' = calls + 1
    /\ UNCHANGED <<users, rows, now, ticks, nodeEnv>>

\* prisma.user.findUnique({where: {email}}), then bcrypt.hash
RegFind(i) ==
    /\ reqs[i].pc = "reg_find"
    /\ IF UserByEmail(reqs[i].email) # {}
       THEN Throw(i, ValidationError("Email already in use"))
       ELSE Proceed(i, [reqs[i] EXCEPT !.pc = "reg_create"])
    /\ UNCHANGED <<users, rows, now, ticks, calls, nodeEnv>>

NewUser(r) ==
    [id |-> UserIds[Cardinality(users) + 1], email |-> r.email,
     password |-> Hash(r.password), firstName |-> r.firstName,
     lastName |-> r.lastName, role |-> RegisterRole, active |-> TRUE]

\* prisma.user.create (email is @unique), then generateTokens(newUser)
RegCreate(i) ==
    /\ reqs[i].pc = "reg_create"
    /\ IF UserByEmail(reqs[i].email) # {}
       THEN /\ Throw(i, PrismaKnownError("Unique constraint failed on the fields: (email)"))
            /\ UNCHANGED users
       ELSE /\ users' = users \cup {NewUser(reqs[i])}
            /\ Proceed(i, [reqs[i] EXCEPT !.pc = "reg_store",
                                          !.uid = NewUser(reqs[i]).id,
                                          !.tokens = generateTokens(NewUser(reqs[i]), now),
                                          !.wrote = TRUE])
    /\ UNCHANGED <<rows, now, ticks, calls, nodeEnv>>

\* prisma.refreshToken.create, then res.status(201)
RegStore(i) ==
    /\ reqs[i].pc = "reg_store"
    /\ rows' = rows \cup {NewRow(reqs[i].tokens.refreshToken, reqs[i].uid)}
    /\ \E u \in UserById(reqs[i].uid) :
          Respond(i, OkWithUser(201, "User registered successfully", u, reqs[i].tokens))
    /\ UNCHANGED <<users, now, ticks, calls, nodeEnv>>

(***************************************************************************)
(* POST /api/auth/login                                                    *)
(***************************************************************************)
StartLogin(e, pw) ==
    /\ Room
    /\ LET r == Request("login", e, pw, "", "", NoToken, NoToken)
       IN  IF LoginValid(r)
           THEN Accept([r EXCEPT !.pc = "login_find"])
           ELSE RespondAtOnce(r, ValidationFailed)
    /\ calls' = calls + 1
    /\ UNCHANGED <<users, rows, now, ticks, nodeEnv>>

\* LoginFind telling an unknown or inactive identity apart from a wrong password
LoginFind_NamesMissingUser(i) ==
    /\ reqs[i].pc = "login_find"
    /\ \/ /\ \A u \in UserByEmail(reqs[i].email) : ~u.active
          /\ Throw(i, AuthError("User not found"))
       \/ \E u \in UserByEmail(reqs[i].email) :
             /\ u.active
             /\ IF ~Compare(reqs[i].password, u.password)
                THEN Throw(i, AuthError("Invalid credentials"))
                ELSE Proceed(i, [reqs[i] EXCEPT !.pc = "login_store", !.uid = u.id,
                                                !.tokens = generateTokens(u, now)])
    /\ UNCHANGED <<users, rows, now, ticks, calls, nodeEnv>>

\* prisma.user.findUnique({where: {email}}), bcrypt.compare, generateTokens(user)
LoginFind(i) ==
    /\ reqs[i].pc = "login_find"
    /\ \/ /\ \A u \in UserByEmail(reqs[i].email) : ~u.active
          /\ Throw(i, AuthError("Invalid credentials"))
       \/ \E u \in UserByEmail(reqs[i].email) :
             /\ u.active
             /\ IF ~Compare(reqs[i].password, u.password)
                THEN Throw(i, AuthError("Invalid credentials"))
                ELSE Proceed(i, [reqs[i] EXCEPT !.pc = "login_store", !.uid = u.id,
                                                !.tokens = generateTokens(u, now)])
    /\ UNCHANGED <<users, rows, now, ticks, calls, nodeEnv>>

\* prisma.refreshToken.create, then res.status(200)
LoginStore(i) ==
    /\ reqs[i].pc = "login_store"
    /\ rows' = rows \cup {NewRow(reqs[i].tokens.refreshToken, reqs[i].uid)}
    /\ \E u \in UserById(reqs[i].uid) :
          Respond(i, OkWithUser(200, "Login successful", u, reqs[i].tokens))
    /\ UNCHANGED <<users, now, ticks, calls, nodeEnv>>

(***************************************************************************)
(* POST /api/auth/refresh-token                                            *)
(***************************************************************************)
\* validateRequest, then refreshToken up to findFirst: jwt.verify
StartRefresh(tok) ==
    /\ Room
    /\ LET r == Request("refresh", "", PwGood, "", "", tok, NoToken)
       IN  IF ~RefreshValid(r)
           THEN RespondAtOnce(r, ValidationFailed)
           ELSE IF Verify(tok, RefreshSecret, now) # "ok"
           THEN RespondAtOnce(r, errorHandler(AuthError("Invalid refresh token"), nodeEnv))
           ELSE Accept([r EXCEPT !.pc = "ref_find", !.uid = tok.payload.id])
    /\ calls' = calls + 1
    /\ UNCHANGED <<users, rows, now, ticks, nodeEnv>>

StoredToken(r) ==
    {x \in rows : x.token = r.token /\ x.userId = r.uid /\ x.expiresAt > now}

\* prisma.refreshToken.findFirst({where: {token, userId, expiresAt: {gt: now}}})
RefFind(i) ==
    /\ reqs[i].pc = "ref_find"
    /\ \/ /\ StoredToken(reqs[i]) = {}
          /\ Throw(i, AuthError("Invalid or expired refresh token"))
       \/ \E x \in StoredToken(reqs[i]) :
             Proceed(i, [reqs[i] EXCEPT !.pc = "ref_user", !.row = x.id])
    /\ UNCHANGED <<users, rows, now, ticks, calls, nodeEnv>>

\* RefUser without the check of user.active
RefUser_IgnoresActive(i) ==
    /\ reqs[i].pc = "ref_user"
    /\ \/ /\ UserById(reqs[i].uid) = {}
          /\ Throw(i, AuthError("User not found or deactivated"))
       \/ \E u \in UserById(reqs[i].uid) :
             Proceed(i, [reqs[i] EXCEPT !.pc = "ref_delete",
                                        !.tokens = generateTokens(u, now)])
    /\ UNCHANGED <<users, rows, now, ticks, calls, nodeEnv>>

\* prisma.user.findUnique({where: {id}}), then generateTokens(user)
RefUser(i) ==
    /\ reqs[i].pc = "ref_user"
    /\ \/ /\ \A u \in UserById(reqs[i].uid) : ~u.active
          /\ Throw(i, AuthError("User not found or deactivated"))
       \/ \E u \in UserById(reqs[i].uid) :
             /\ u.active
             /\ Proceed(i, [reqs[i] EXCEPT !.pc = "ref_delete",
                                           !.tokens = generateTokens(u, now)])
    /\ UNCHANGED <<users, rows, now, ticks, calls, nodeEnv>>

\* prisma.refreshToken.delete({where: {id}}): throws when the row is gone
RefDelete(i) ==
    /\ reqs[i].pc = "ref_delete"
    /\ IF \A x \in rows : x.id # reqs[i].row
       THEN /\ Throw(i, PrismaKnownError("Record to delete does not exist."))
            /\ UNCHANGED rows
       ELSE /\ rows' = {x \in rows : x.id # reqs[i].row}
            /\ Proceed(i, [reqs[i] EXCEPT !.pc = "ref_create", !.deleted = TRUE,
                                          !.wrote = TRUE])
    /\ UNCHANGED <<users, now, ticks, calls, nodeEnv>>

\* prisma.refreshToken.create, then res.status(200)
RefCreate(i) ==
    /\ reqs[i].pc = "ref_create"
    /\ rows' = rows \cup {NewRow(reqs[i].tokens.refreshToken, reqs[i].uid)}
    /\ Respond(i, OkWithTokens(200, "Token refreshed successfully", reqs[i].tokens))
    /\ UNCHANGED <<users, now, ticks, calls, nodeEnv>>

(***************************************************************************)
(* POST /api/auth/logout: authenticateUser, then logout                    *)
(***************************************************************************)
\* authenticateUser up to findUnique: the Authorization header and jwt.verify
StartLogout(bearer, tok) ==
    /\ Room
    /\ LET r == Request("logout", "", PwGood, "", "", tok, bearer)
       IN  IF bearer = NoToken
           THEN RespondAtOnce(r, errorHandler(AuthError("Authentication token required"), nodeEnv))
           ELSE IF Verify(bearer, AccessSecret, now) # "ok"
           THEN RespondAtOnce(r, errorHandler(AuthError("Invalid or expired token"), nodeEnv))
           ELSE Accept([r EXCEPT !.pc = "auth_user", !.uid = bearer.payload.id])
    /\ calls' = calls + 1
    /\ UNCHANGED <<users, rows, now, ticks, nodeEnv>>

\* authenticateUser: prisma.user.findUnique, req.user, next(); then logout up
\* to deleteMany
AuthUser(i) ==
    /\ reqs[i].pc = "auth_user"
    /\ \/ /\ \A u \in UserById(reqs[i].uid) : ~u.active
          /\ Throw(i, AuthError("User not found or deactivated"))
       \/ /\ \E u \in UserById(reqs[i].uid) : u.active
          /\ IF reqs[i].token = NoToken
             THEN Respond(i, Ok(200, "Logged out successfully"))
             ELSE Proceed(i, [reqs[i] EXCEPT !.pc = "logout_delete"])
    /\ UNCHANGED <<users, rows, now, ticks, calls, nodeEnv>>

\* what a database call throws when the database fails
DbFailures ==
    {PrismaKnownError("Timed out fetching a new connection from the pool"),
     [name |-> "PrismaClientInitializationError", message |-> "Can't reach database server"]}

\* LogoutDelete with deleteMany({where: {token}}), the caller's id left out
LogoutDelete_AnyOwner(i) ==
    /\ reqs[i].pc = "logout_delete"
    /\ \/ /\ rows' = {x \in rows : x.token # reqs[i].token}
          /\ Respond(i, Ok(200, "Logged out successfully"))
       \/ /\ \E err \in DbFailures : Throw(i, err)
          /\ UNCHANGED rows
    /\ UNCHANGED <<users, now, ticks, calls, nodeEnv>>

\* prisma.refreshToken.deleteMany({where: {token, userId: req.user.id}}), then
\* res.status(200); what deleteMany throws goes to next(error)
LogoutDelete(i) ==
    /\ reqs[i].pc = "logout_delete"
    /\ \/ /\ rows' = {x \in rows : ~(x.token = reqs[i].token /\ x.userId = reqs[i].uid)}
          /\ Respond(i, Ok(200, "Logged out successfully"))
       \/ /\ \E err \in DbFailures : Throw(i, err)
          /\ UNCHANGED rows
    /\ UNCHANGED <<users, now, ticks, calls, nodeEnv>>

(***************************************************************************)
(* Environment of the server                                               *)
(***************************************************************************)
Tick(d) ==
    /\ ticks < MaxTicks
    /\ now' = now + d
    /\ ticks' = ticks + 1
    /\ last' = NoAnswer
    /\ UNCHANGED <<users, rows, calls, nodeEnv, reqs, spent>>
    /\ UNCHANGED <<clientVars, accessVars>>

\* an identity is deactivated (active := false) by an administrator
DeactivateUser(u) ==
    /\ u \in users
    /\ u.active
    /\ users' = (users \ {u}) \cup {[u EXCEPT !.active = FALSE]}
    /\ last' = NoAnswer
    /\ UNCHANGED <<rows, now, ticks, calls, nodeEnv, reqs, spent>>
    /\ UNCHANGED <<clientVars, accessVars>>

\* the tokens a caller of the API can present
\* (those stored or redeemed, and the access tokens issued with them)
KnownRefresh == {x.token : x \in rows} \cup spent
KnownAccess ==
    {generateTokens(u, t.iat).accessToken : <<u, t>> \in {<<u, t>> \in users \X KnownRefresh : t.payload.id = u.id}}

RegisterInputs ==
    {<<e, PwGood, "Al", "Lee">> : e \in Emails}
      \cup {<<BadEmail, PwGood, "Al", "Lee">>, <<"a@x.com", PwWeak, "Al", "Lee">>,
            <<"a@x.com", PwGood, "", "Lee">>, <<"a@x.com", PwGood, "Al", "">>}
LoginInputs ==
    {<<e, pw>> : e \in Emails, pw \in {PwGood, PwOther}} \cup {<<BadEmail, PwGood>>}

(***************************************************************************)
(* The client's auth slice: reducers                                       *)
(***************************************************************************)
\* localStorage.getItem(key): null when the key is absent
GetItem(st, key) == IF key \in DOMAIN st THEN st[key] ELSE NullTok
SetItem(st, key, value) ==
    [k \in DOMAIN st \cup {key} |-> IF k = key THEN String(value) ELSE st[k]]
RemoveItem(st, key) == [k \in DOMAIN st \ {key} |-> st[k]]

initialState(st) ==
    [user |-> NullUser,
     token |-> GetItem(st, "token"),
     refreshToken |-> GetItem(st, "refreshToken"),
     isAuthenticated |-> Truthy(GetItem(st, "token")),
     isLoading |-> FALSE,
     error |-> NoError]

\* the try/catch around jwtDecode in the three fulfilled reducers
DecodeUser(s, token) ==
    IF Decodable(token)
    THEN [s EXCEPT !.user = [id |-> Prop(token.payload, "userId"),
                             email |-> Prop(token.payload, "email"),
                             firstName |-> Prop(token.payload, "firstName"),
                             lastName |-> Prop(token.payload, "lastName"),
                             role |-> Prop(token.payload, "role")]]
    ELSE [s EXCEPT !.error = "Invalid token received"]

loginPending(s) == [s EXCEPT !.isLoading = TRUE, !.error = NoError]
loginFulfilled(s, payload) ==
    DecodeUser([s EXCEPT !.isLoading = FALSE, !.isAuthenticated = TRUE,
                         !.token = TokenProp(payload, "token"),
                         !.refreshToken = TokenProp(payload, "refreshToken")],
               TokenProp(payload, "token"))
loginRejected_StaysAuthenticated(s, payload) ==
    [s EXCEPT !.isLoading = FALSE, !.error = payload]
loginRejected(s, payload) ==
    [s EXCEPT !.isLoading = FALSE, !.isAuthenticated = FALSE, !.error = payload]

registerPending(s) == [s EXCEPT !.isLoading = TRUE, !.error = NoError]
registerFulfilled(s, payload) ==
    DecodeUser([s EXCEPT !.isLoading = FALSE, !.isAuthenticated = TRUE,
                         !.token = TokenProp(payload, "token"),
                         !.refreshToken = TokenProp(payload, "refreshToken")],
               TokenProp(payload, "token"))
registerRejected(s, payload) ==
    [s EXCEPT !.isLoading = FALSE, !.isAuthenticated = FALSE, !.error = payload]

refreshPending(s) == [s EXCEPT !.isLoading = TRUE, !.error = NoError]
refreshFulfilled(s, payload) ==
    DecodeUser([s EXCEPT !.isLoading = FALSE, !.isAuthenticated = TRUE,
                         !.token = TokenProp(payload, "token")],
               TokenProp(payload, "token"))
refreshRejected_KeepsRefreshToken(s, payload) ==
    [s EXCEPT !.isLoading = FALSE, !.isAuthenticated = FALSE, !.token = NullTok,
              !.user = NullUser, !.error = payload]
refreshRejected(s, payload) ==
    [s EXCEPT !.isLoading = FALSE, !.isAuthenticated = FALSE, !.token = NullTok,
              !.refreshToken = NullTok, !.user = NullUser, !.error = payload]

logoutPending(s) == [s EXCEPT !.isLoading = TRUE]
logoutFulfilled(s) ==
    [s EXCEPT !.isLoading = FALSE, !.isAuthenticated = FALSE, !.token = NullTok,
              !.refreshToken = NullTok, !.user = NullUser, !.error = NoError]
logoutRejected(s) ==
    [s EXCEPT !.isLoading = FALSE, !.isAuthenticated = FALSE, !.token = NullTok,
              !.refreshToken = NullTok, !.user = NullUser]

(***************************************************************************)
(* The client's auth slice: thunks                                         *)
(***************************************************************************)
\* An HTTP exchange as axios reports it: ok (a 2xx response, response.data is
\* the body) or an error whose response.data is the body; a request that got
\* no response has no body.
NoBody == [none |-> TRUE]
Outcome(response) ==
    [ok |-> response.status \in 200..299, data |-> response.body]
NetworkError == [ok |-> FALSE, data |-> NoBody]

\* error.response?.data?.message || fallback
MessageOr(outcome, fallback) ==
    IF Prop(outcome.data, "message") \notin {Undefined, ""}
    THEN outcome.data.message
    ELSE fallback

\* the id of a thunk (requestId): one no pending thunk has
FreshTid ==
    CHOOSE n \in 1..(MaxThunks + 1) :
        /\ \A i \in 1..Len(thunks) : thunks[i].tid # n
        /\ \A m \in 1..(MaxThunks + 1) :
              (\A i \in 1..Len(thunks) : thunks[i].tid # m) => n <= m

\* a dispatched thunk: the request axios.post sends and whether it arrived
Thunk(op, url, email, password, firstName, lastName, token) ==
    [tid |-> FreshTid, op |-> op, url |-> url, email |-> email, password |-> password,
     firstName |-> firstName, lastName |-> lastName, token |-> token]

\* dispatch(login(credentials)): login.pending, then axios.post
DispatchLogin(e, pw) ==
    /\ Len(thunks) < MaxThunks
    /\ session' = loginPending(session)
    /\ thunks' = Append(thunks, Thunk("login", "/api/auth/login", e, pw, "", "", NoToken))
    /\ event' = "auth/login/pending"
    /\ UNCHANGED storage

\* dispatch(register(userData)): register.pending, then axios.post
DispatchRegister(e, pw, fn, ln) ==
    /\ Len(thunks) < MaxThunks
    /\ session' = registerPending(session)
    /\ thunks' = Append(thunks, Thunk("register", "/api/auth/register", e, pw, fn, ln, NoToken))
    /\ event' = "auth/register/pending"
    /\ UNCHANGED storage

\* dispatch(refreshToken()): refreshToken.pending; without a refresh token the
\* thunk throws, clears the storage and is rejected in the same task
DispatchRefresh ==
    /\ Len(thunks) < MaxThunks
    /\ IF ~Truthy(session.refreshToken)
       THEN /\ storage' = RemoveItem(RemoveItem(storage, "token"), "refreshToken")
            /\ session' = refreshRejected(refreshPending(session),
                                          "Session expired. Please log in again.")
            /\ event' = "auth/refreshToken/rejected"
            /\ UNCHANGED thunks
       ELSE /\ session' = refreshPending(session)
            /\ thunks' = Append(thunks, Thunk("refresh", "/api/auth/refresh", "", PwGood, "", "",
                                              session.refreshToken))
            /\ event' = "auth/refreshToken/pending"
            /\ UNCHANGED storage

\* dispatch(logout()): logout.pending, then axios.post without a body
DispatchLogout ==
    /\ Len(thunks) < MaxThunks
    /\ session' = logoutPending(session)
    /\ thunks' = Append(thunks, Thunk("logout", "/api/auth/logout", "", PwGood, "", "", NoToken))
    /\ event' = "auth/logout/pending"
    /\ UNCHANGED storage

\* the rest of a thunk after its axios.post: what it does to the storage
thunkStorage(op, st, outcome) ==
    CASE op \in {"login", "register"} ->
           IF outcome.ok
           THEN SetItem(SetItem(st, "token", TokenProp(outcome.data, "token")),
                        "refreshToken", TokenProp(outcome.data, "refreshToken"))
           ELSE st
      [] op = "refresh" ->
           IF outcome.ok
           THEN SetItem(st, "token", TokenProp(outcome.data, "token"))
           ELSE RemoveItem(RemoveItem(st, "token"), "refreshToken")
      [] op = "logout" -> RemoveItem(RemoveItem(st, "token"), "refreshToken")

\* the reducer of the fulfilled or rejected action the thunk returns
thunkReduce(op, s, outcome) ==
    CASE op = "login" ->
           IF outcome.ok THEN loginFulfilled(s, outcome.data)
           ELSE loginRejected(s, MessageOr(outcome, "Login failed. Please try again."))
      [] op = "register" ->
           IF outcome.ok THEN registerFulfilled(s, outcome.data)
           ELSE registerRejected(s, MessageOr(outcome, "Registration failed. Please try again."))
      [] op = "refresh" ->
           IF outcome.ok THEN refreshFulfilled(s, outcome.data)
           ELSE refreshRejected(s, MessageOr(outcome, "Session expired. Please log in again."))
      [] op = "logout" ->
           IF outcome.ok THEN logoutFulfilled(s) ELSE logoutRejected(s)

\* the rest of the login thunk and the reducer of the action it returns
SettleLogin(i, outcome) ==
    /\ thunks[i].op = "login"
    /\ thunks' = RemoveAt(thunks, i)
    /\ storage' = thunkStorage("login", storage, outcome)
    /\ session' = thunkReduce("login", session, outcome)
    /\ event' = IF outcome.ok THEN "auth/login/fulfilled" ELSE "auth/login/rejected"

SettleRegister(i, outcome) ==
    /\ thunks[i].op = "register"
    /\ thunks' = RemoveAt(thunks, i)
    /\ storage' = thunkStorage("register", storage, outcome)
    /\ session' = thunkReduce("register", session, outcome)
    /\ event' = IF outcome.ok THEN "auth/register/fulfilled" ELSE "auth/register/rejected"

SettleRefresh(i, outcome) ==
    /\ thunks[i].op = "refresh"
    /\ thunks' = RemoveAt(thunks, i)
    /\ storage' = thunkStorage("refresh", storage, outcome)
    /\ session' = thunkReduce("refresh", session, outcome)
    /\ event' = IF outcome.ok THEN "auth/refreshToken/fulfilled"
                ELSE "auth/refreshToken/rejected"

SettleLogout(i, outcome) ==
    /\ thunks[i].op = "logout"
    /\ thunks' = RemoveAt(thunks, i)
    /\ storage' = thunkStorage("logout", storage, outcome)
    /\ session' = thunkReduce("logout", session, outcome)
    /\ event' = IF outcome.ok THEN "auth/logout/fulfilled" ELSE "auth/logout/rejected"

(***************************************************************************)
(* Protected band routes: authenticate, predicate, handler                 *)
(***************************************************************************)
\* The repository holds two middleware families.  Family "A" (part_003)
\* looks the caller up in the database and raises typed errors; family "B"
\* (second half of validateRequest.ts) trusts the decoded token and answers
\* by itself.  Ownership is checked by family B only, createBand reads
\* req.user.id as family A sets it.
GetBand == "GET /api/bands/:bandId"
PatchBand == "PATCH /api/bands/:bandId"
PostBand == "POST /api/bands"
Chains ==
    {<<GetBand, "A">>, <<GetBand, "B">>, <<PatchBand, "B">>, <<PostBand, "A">>,
     <<"POST /api/bands/:bandId/members", "B">>,
     <<"DELETE /api/bands/:bandId/members/:userId", "B">>}

\* identities with their roles as the database holds them
SeedUsers ==
    {[id |-> "u1", email |-> "a@x.com", password |-> Hash(PwGood), firstName |-> "Al",
      lastName |-> "Lee", role |-> "ADMIN", active |-> TRUE],
     [id |-> "u2", email |-> "b@x.com", password |-> Hash(PwGood), firstName |-> "Bo",
      lastName |-> "Ray", role |-> "MEMBER", active |-> TRUE]}

\* a token whose payload has the fields of interface JwtPayload
PayloadToken(u, t) ==
    Sign([userId |-> u.id, email |-> u.email, firstName |-> u.firstName,
          lastName |-> u.lastName, role |-> u.role], AccessSecret, AccessTTL, t)

\* the bearer tokens a caller presents
Bearers ==
    {generateTokens(u, 0).accessToken : u \in SeedUsers}
      \cup {PayloadToken(u, 0) : u \in SeedUsers} \cup {Garbage, NoToken}

\* the id no band has, and the band ids a caller names
NoBand == 0
BandIds == 0..MaxBands
BandName == "Jam"
NewBandName == "Riff"

NoReqUser == [none |-> TRUE]
NoGate ==
    [route |-> "", family |-> "", bearer |-> NoToken, bandId |-> NoBand, user |-> NoReqUser,
     target |-> NoUser, pc |-> "idle", reached |-> {}, verified |-> FALSE, denied |-> FALSE,
     thrown |-> NoThrow, resp |-> NoResponse]

\* res.status(..).json(..) of a middleware or handler
GateAnswer(g, status, body) ==
    [g EXCEPT !.pc = "done", !.resp = [status |-> status, body |-> body]]
\* next(error): the error handler answers
GateThrow(g, err) ==
    [g EXCEPT !.pc = "done", !.thrown = err, !.resp = errorHandler(err, nodeEnv)]

\* next() into the handler, up to its first await
EnterHandler(g) ==
    [g EXCEPT !.reached = @ \cup {"handler"},
              !.pc = CASE g.route = PostBand -> "create_find"
                       [] g.route = "POST /api/bands/:bandId/members" -> "add_band"
                       [] g.route = "DELETE /api/bands/:bandId/members/:userId" -> "remove_find"
                       [] OTHER -> "handler"]

\* isBandMember of part_003 up to its await
isBandMemberA(g) ==
    IF g.user.role = "ADMIN" THEN EnterHandler(g) ELSE [g EXCEPT !.pc = "member"]

\* isBandMember and isBandManager of validateRequest.ts up to their await
isBandMemberB(g) ==
    IF Prop(g.user, "userId") = Undefined
    THEN GateAnswer(g, 400, [message |-> "Band ID or user ID missing"])
    ELSE IF Prop(g.user, "role") = "ADMIN" THEN EnterHandler(g)
    ELSE [g EXCEPT !.pc = "member"]
isBandManager(g) ==
    IF Prop(g.user, "userId") = Undefined
    THEN GateAnswer(g, 400, [message |-> "Band ID or user ID missing"])
    ELSE IF Prop(g.user, "role") = "ADMIN" THEN EnterHandler(g)
    ELSE [g EXCEPT !.pc = "owner"]

\* next() out of authenticate: the route's next middleware or its handler
AfterAuth(g) ==
    LET h == [g EXCEPT !.reached = @ \cup {"predicate"}]
    IN  CASE g.route = GetBand /\ g.family = "A" -> isBandMemberA(h)
          [] g.route = GetBand /\ g.family = "B" -> isBandMemberB(h)
          [] g.route \in {PatchBand, "POST /api/bands/:bandId/members",
                          "DELETE /api/bands/:bandId/members/:userId"} -> isBandManager(h)
          [] OTHER -> EnterHandler(g)

\* authenticateUser of part_003 up to prisma.user.findUnique
authenticateA(g) ==
    IF g.bearer = NoToken THEN GateThrow(g, AuthError("Authentication token required"))
    ELSE IF Verify(g.bearer, AccessSecret, now) # "ok"
    THEN GateThrow(g, AuthError("Invalid or expired token"))
    ELSE IF Prop(g.bearer.payload, "id") = Undefined
    THEN GateThrow([g EXCEPT !.verified = TRUE], PrismaValidationError("Argument id is missing"))
    ELSE [g EXCEPT !.verified = TRUE, !.pc = "auth_user"]

\* authenticateUser of validateRequest.ts: req.user = decoded
authenticateB(g) ==
    IF g.bearer = NoToken
    THEN GateAnswer(g, 401, [message |-> "No token provided, authorization denied"])
    ELSE IF Verify(g.bearer, AccessSecret, now) # "ok"
    THEN GateAnswer(g, 401, [message |-> "Token is invalid or expired"])
    ELSE AfterAuth([g EXCEPT !.verified = TRUE, !.user = g.bearer.payload])

\* a request to a protected band route arrives
GateCall(route, family, bearer, bandId) ==
    /\ gate.pc = "idle"
    /\ route = PostBand => Cardinality(bands) < MaxBands
    /\ LET g == [NoGate EXCEPT !.route = route, !.family = family, !.bearer = bearer,
                               !.bandId = bandId, !.reached = {"authenticate"}]
       IN  gate' = IF family = "A" THEN authenticateA(g) ELSE authenticateB(g)
    /\ UNCHANGED <<bands, members>>

\* the response is sent, the route takes the next request
GateClose ==
    /\ gate.pc = "done"
    /\ gate' = NoGate
    /\ UNCHANGED <<bands, members>>

\* authenticateUser of part_003 from prisma.user.findUnique on
GateAuthUser ==
    /\ gate.pc = "auth_user"
    /\ \/ /\ \A u \in UserById(gate.bearer.payload.id) : ~u.active
          /\ gate' = GateThrow(gate, AuthError("User not found or deactivated"))
       \/ \E u \in UserById(gate.bearer.payload.id) :
             /\ u.active
             /\ gate' = AfterAuth([gate EXCEPT !.user = [id |-> u.id, email |-> u.email,
                                                        role |-> u.role]])
    /\ UNCHANGED <<bands, members>>

\* the caller's id as the family's predicate reads it
GateUserId == IF gate.family = "A" THEN gate.user.id ELSE Prop(gate.user, "userId")

\* prisma.bandMember.findFirst / findUnique of isBandMember and what follows
GateMember ==
    /\ gate.pc = "member"
    /\ IF \E m \in members : m.bandId = gate.bandId /\ m.userId = GateUserId
       THEN gate' = EnterHandler(gate)
       ELSE IF gate.family = "A"
       THEN gate' = GateThrow([gate EXCEPT !.denied = TRUE],
                              ForbiddenError("You are not a member of this band"))
       ELSE gate' = GateAnswer([gate EXCEPT !.denied = TRUE], 403,
                       [message |-> "Access denied, you are not a member of this band"])
    /\ UNCHANGED <<bands, members>>

GateOwner_AnyCallerOfAnExistingBand ==
    /\ gate.pc = "owner"
    /\ IF \A b \in bands : b.id # gate.bandId
       THEN gate' = GateAnswer(gate, 404, [message |-> "Band not found"])
       ELSE gate' = EnterHandler(gate)
    /\ UNCHANGED <<bands, members>>

\* prisma.band.findUnique of isBandManager and what follows
GateOwner ==
    /\ gate.pc = "owner"
    /\ IF \A b \in bands : b.id # gate.bandId
       THEN gate' = GateAnswer(gate, 404, [message |-> "Band not found"])
       ELSE IF \E b \in bands : b.id = gate.bandId /\ b.createdById = GateUserId
       THEN gate' = EnterHandler(gate)
       ELSE gate' = GateAnswer([gate EXCEPT !.denied = TRUE], 403,
                       [message |-> "Access denied, band manager privileges required"])
    /\ UNCHANGED <<bands, members>>

\* getBandById, and updateBand up to prisma.band.update
GateHandler ==
    /\ gate.pc = "handler"
    /\ IF \A b \in bands : b.id # gate.bandId
       THEN gate' = GateThrow(gate, NotFoundError("Band with ID not found"))
       ELSE IF gate.route = GetBand
       THEN gate' = GateAnswer(gate, 200, [success |-> TRUE])
       ELSE gate' = [gate EXCEPT !.pc = "update"]
    /\ UNCHANGED <<bands, members>>

\* updateBand: prisma.band.update, then res.status(200)
GateUpdate ==
    /\ gate.pc = "update"
    /\ bands' = {IF b.id = gate.bandId THEN [b EXCEPT !.name = NewBandName] ELSE b : b \in bands}
    /\ gate' = GateAnswer(gate, 200, [success |-> TRUE, message |-> "Band updated successfully"])
    /\ UNCHANGED members

\* createBand: prisma.band.findFirst({where: {name, createdById}})
GateCreateFind ==
    /\ gate.pc = "create_find"
    /\ IF \E b \in bands : b.name = BandName /\ b.createdById = gate.user.id
       THEN gate' = GateThrow(gate, ConflictError("You already have a band named Jam"))
       ELSE gate' = [gate EXCEPT !.pc = "create_band"]
    /\ UNCHANGED <<bands, members>>

\* createBand: prisma.band.create
GateCreateBand ==
    /\ gate.pc = "create_band"
    /\ bands' = bands \cup {[id |-> Cardinality(bands) + 1, name |-> BandName,
                             createdById |-> gate.user.id]}
    /\ gate' = [gate EXCEPT !.pc = "create_member", !.bandId = Cardinality(bands) + 1]
    /\ UNCHANGED members

\* createBand: prisma.bandMember.create, then res.status(201)
GateCreateMember ==
    /\ gate.pc = "create_member"
    /\ members' = members \cup {[bandId |-> gate.bandId, userId |-> gate.user.id,
                                 role |-> "ADMIN"]}
    /\ gate' = GateAnswer(gate, 201, [success |-> TRUE, message |-> "Band created successfully"])
    /\ UNCHANGED bands

\* addBandMember: {userId} of the body, then band.findUnique, user.findUnique,
\* bandMember.findFirst and bandMember.create, one step each
GateAddMember ==
    /\ \/ /\ gate.pc = "add_band"
          /\ \E t \in {u.id : u \in users} \cup {NoUser} :
                gate' = IF \A b \in bands : b.id # gate.bandId
                        THEN GateThrow(gate, NotFoundError("Band with ID not found"))
                        ELSE [gate EXCEPT !.target = t, !.pc = "add_user"]
          /\ UNCHANGED members
       \/ /\ gate.pc = "add_user"
          /\ gate' = IF UserById(gate.target) = {}
                     THEN GateThrow(gate, NotFoundError("User with ID not found"))
                     ELSE [gate EXCEPT !.pc = "add_find"]
          /\ UNCHANGED members
       \/ /\ gate.pc = "add_find"
          /\ gate' = IF \E m \in members : m.bandId = gate.bandId /\ m.userId = gate.target
                     THEN GateThrow(gate, ConflictError("User is already a member of this band"))
                     ELSE [gate EXCEPT !.pc = "add_create"]
          /\ UNCHANGED members
       \/ /\ gate.pc = "add_create"
          /\ IF \E m \in members : m.bandId = gate.bandId /\ m.userId = gate.target
             THEN /\ gate' = GateThrow(gate, PrismaKnownError(
                                 "Unique constraint failed on the fields: (bandId, userId)"))
                  /\ UNCHANGED members
             ELSE /\ members' = members \cup {[bandId |-> gate.bandId, userId |-> gate.target,
                                                role |-> "MEMBER"]}
                  /\ gate' = GateAnswer(gate, 201, [success |-> TRUE,
                                                    message |-> "Member added to band"])
    /\ UNCHANGED bands

\* removeBandMember: {userId} of the path, then bandMember.findFirst,
\* band.findUnique and bandMember.delete, one step each
GateRemoveMember ==
    /\ \/ /\ gate.pc = "remove_find"
          /\ \E t \in {u.id : u \in users} :
                gate' = IF \E m \in members : m.bandId = gate.bandId /\ m.userId = t
                        THEN [gate EXCEPT !.target = t, !.pc = "remove_band"]
                        ELSE GateThrow([gate EXCEPT !.target = t], NotFoundError("Band member not found"))
          /\ UNCHANGED members
       \/ /\ gate.pc = "remove_band"
          /\ gate' = IF \E b \in bands : b.id = gate.bandId /\ b.createdById = gate.target
                     THEN GateThrow(gate, ValidationError("Cannot remove the band creator"))
                     ELSE [gate EXCEPT !.pc = "remove_delete"]
          /\ UNCHANGED members
       \/ /\ gate.pc = "remove_delete"
          /\ IF \E m \in members : m.bandId = gate.bandId /\ m.userId = gate.target
             THEN /\ members' = {m \in members :
                                   ~(m.bandId = gate.bandId /\ m.userId = gate.target)}
                  /\ gate' = GateAnswer(gate, 200, [success |-> TRUE,
                                                    message |-> "Member removed from band"])
             ELSE /\ gate' = GateThrow(gate, PrismaKnownError("Record to delete does not exist."))
                  /\ UNCHANGED members
    /\ UNCHANGED bands

(***************************************************************************)
(* Initial states                                                          *)
(***************************************************************************)
ServerInit ==
    /\ users = {}
    /\ rows = {}
    /\ now = 0
    /\ ticks = 0
    /\ calls = 0
    /\ nodeEnv \in NodeEnvs
    /\ reqs = <<>>
    /\ last = NoAnswer
    /\ spent = {}

\* no band, no request to a band route
AccessIdle ==
    /\ bands = {}
    /\ members = {}
    /\ gate = NoGate

\* the client before the page is loaded
ClientIdle ==
    /\ storage = <<>>
    /\ session = initialState(storage)
    /\ thunks = <<>>
    /\ event = "@@INIT"

Init == ServerInit /\ ClientIdle /\ AccessIdle

(***************************************************************************)
(* The server with callers of its API                                      *)
(***************************************************************************)
ApiRegister ==
    \E in \in RegisterInputs :
        StartRegister(in[1], in[2], in[3], in[4]) /\ UNCHANGED <<clientVars, accessVars>>
ApiLogin ==
    \E in \in LoginInputs : StartLogin(in[1], in[2]) /\ UNCHANGED <<clientVars, accessVars>>
ApiRefresh ==
    \E tok \in KnownRefresh \cup KnownAccess \cup {Garbage, NoToken} :
        StartRefresh(tok) /\ UNCHANGED <<clientVars, accessVars>>
ApiLogout ==
    \E bearer \in KnownAccess \cup KnownRefresh \cup {NoToken}, tok \in KnownRefresh \cup {NoToken} :
        StartLogout(bearer, tok) /\ UNCHANGED <<clientVars, accessVars>>

Next ==
    \/ ApiRegister
    \/ ApiLogin
    \/ ApiRefresh
    \/ ApiLogout
    \/ \E i \in 1..Len(reqs) : RegFind(i)
    \/ \E i \in 1..Len(reqs) : RegCreate(i)
    \/ \E i \in 1..Len(reqs) : RegStore(i)
    \/ \E i \in 1..Len(reqs) : LoginFind(i)
    \/ \E i \in 1..Len(reqs) : LoginStore(i)
    \/ \E i \in 1..Len(reqs) : RefFind(i)
    \/ \E i \in 1..Len(reqs) : RefUser(i)
    \/ \E i \in 1..Len(reqs) : RefDelete(i)
    \/ \E i \in 1..Len(reqs) : RefCreate(i)
    \/ \E i \in 1..Len(reqs) : AuthUser(i)
    \/ \E i \in 1..Len(reqs) : LogoutDelete(i)
    \/ \E d \in Jumps : Tick(d)
    \/ \E u \in users : DeactivateUser(u)

Spec == Init /\ [][Next]_vars

(***************************************************************************)
(* The client with the responses its requests can get                      *)
(***************************************************************************)
\* the claims the client decodes from an access token
ClientClaims ==
    [userId |-> "u1", email |-> "a@x.com", firstName |-> "Al", lastName |-> "Lee",
     role |-> "member"]
\* a body of the shape the thunks read: response.data.token, .refreshToken
ClientBody(t) ==
    [token |-> Sign(ClientClaims, AccessSecret, AccessTTL, t),
     refreshToken |-> Sign([id |-> "u1"], RefreshSecret, RefreshTTL, t)]
\* an identity as register stores it
SampleUser ==
    [id |-> "u1", email |-> "a@x.com", password |-> Hash(PwGood), firstName |-> "Al",
     lastName |-> "Lee", role |-> RegisterRole, active |-> TRUE]
\* Express answers a path without a route with an HTML page
NotFound == [status |-> 404, body |-> [html |-> "Cannot POST"]]

LoginOutcomes ==
    {Outcome([status |-> 200, body |-> ClientBody(0)]),
     Outcome([status |-> 200, body |-> [ClientBody(0) EXCEPT !.token = Malformed]]),
     Outcome(OkWithUser(200, "Login successful", SampleUser, generateTokens(SampleUser, 0))),
     Outcome(errorHandler(AuthError("Invalid credentials"), "production")),
     Outcome(ValidationFailed),
     NetworkError}
RegisterOutcomes ==
    {Outcome([status |-> 201, body |-> ClientBody(0)]),
     Outcome(OkWithUser(201, "User registered successfully", SampleUser,
                        generateTokens(SampleUser, 0))),
     Outcome(errorHandler(ValidationError("Email already in use"), "production")),
     NetworkError}
RefreshOutcomes ==
    {Outcome([status |-> 200, body |-> [token |-> ClientBody(1).token]]),
     Outcome(OkWithTokens(200, "Token refreshed successfully", generateTokens(SampleUser, 1))),
     Outcome(errorHandler(AuthError("Invalid refresh token"), "production")),
     Outcome(NotFound),
     NetworkError}
LogoutOutcomes ==
    {Outcome(Ok(200, "Logged out successfully")),
     Outcome(errorHandler(AuthError("Invalid or expired token"), "production")),
     NetworkError}
Outcomes(op) ==
    CASE op = "login" -> LoginOutcomes
      [] op = "register" -> RegisterOutcomes
      [] op = "refresh" -> RefreshOutcomes
      [] op = "logout" -> LogoutOutcomes

\* what the two storage keys hold when the page is loaded
StoredSessions ==
    {<<>>,
     [token |-> ClientBody(0).token, refreshToken |-> ClientBody(0).refreshToken],
     [token |-> StrUndefTok, refreshToken |-> StrUndefTok]}

ClientInit ==
    /\ ServerInit
    /\ storage \in StoredSessions
    /\ session = initialState(storage)
    /\ thunks = <<>>
    /\ event = "@@INIT"
    /\ AccessIdle

\* the reducers clearError and setUser
clearError_AlsoStopsLoading ==
    /\ session' = [session EXCEPT !.error = NoError, !.isLoading = FALSE]
    /\ event' = "auth/clearError"
    /\ UNCHANGED <<storage, thunks>>
clearError ==
    /\ session' = [session EXCEPT !.error = NoError]
    /\ event' = "auth/clearError"
    /\ UNCHANGED <<storage, thunks>>
setUser(u) ==
    /\ session' = [session EXCEPT !.user = u]
    /\ event' = "auth/setUser"
    /\ UNCHANGED <<storage, thunks>>

ClientNext ==
    \/ \E pw \in {PwGood, PwOther} : DispatchLogin("a@x.com", pw) /\ UNCHANGED <<serverVars, accessVars>>
    \/ \E pw \in {PwGood, PwWeak} :
          DispatchRegister("a@x.com", pw, "Al", "Lee") /\ UNCHANGED <<serverVars, accessVars>>
    \/ DispatchRefresh /\ UNCHANGED <<serverVars, accessVars>>
    \/ DispatchLogout /\ UNCHANGED <<serverVars, accessVars>>
    \/ \E i \in 1..Len(thunks) : \E o \in LoginOutcomes : SettleLogin(i, o) /\ UNCHANGED <<serverVars, accessVars>>
    \/ \E i \in 1..Len(thunks) : \E o \in RegisterOutcomes :
          SettleRegister(i, o) /\ UNCHANGED <<serverVars, accessVars>>
    \/ \E i \in 1..Len(thunks) : \E o \in RefreshOutcomes :
          SettleRefresh(i, o) /\ UNCHANGED <<serverVars, accessVars>>
    \/ \E i \in 1..Len(thunks) : \E o \in LogoutOutcomes :
          SettleLogout(i, o) /\ UNCHANGED <<serverVars, accessVars>>
    \/ clearError /\ UNCHANGED <<serverVars, accessVars>>
    \/ \E u \in {NullUser, PublicUser(SampleUser)} : setUser(u) /\ UNCHANGED <<serverVars, accessVars>>

SpecClient == ClientInit /\ [][ClientNext]_vars

(***************************************************************************)
(* The band routes with their callers                                      *)
(***************************************************************************)
AccessInit ==
    /\ users = SeedUsers
    /\ rows = {}
    /\ now = 0
    /\ ticks = 0
    /\ calls = 0
    /\ nodeEnv \in NodeEnvs
    /\ reqs = <<>>
    /\ last = NoAnswer
    /\ spent = {}
    /\ ClientIdle
    /\ AccessIdle

AccessFrame == UNCHANGED <<serverVars, clientVars>>

AccessNext ==
    \/ \E c \in Chains, bearer \in Bearers, bandId \in BandIds :
          GateCall(c[1], c[2], bearer, bandId) /\ AccessFrame
    \/ GateAuthUser /\ AccessFrame
    \/ GateMember /\ AccessFrame
    \/ GateOwner /\ AccessFrame
    \/ GateHandler /\ AccessFrame
    \/ GateUpdate /\ AccessFrame
    \/ GateCreateFind /\ AccessFrame
    \/ GateCreateBand /\ AccessFrame
    \/ GateCreateMember /\ AccessFrame
    \/ GateAddMember /\ AccessFrame
    \/ GateRemoveMember /\ AccessFrame
    \/ GateClose /\ AccessFrame
    \/ \E d \in Jumps : Tick(d)
    \/ \E u \in users : DeactivateUser(u)

SpecAccess == AccessInit /\ [][AccessNext]_vars

(***************************************************************************)
(* Properties of the server                                                *)
(***************************************************************************)
InvalidCredentials ==
    [status |-> 401, body |-> [success |-> FALSE, message |-> "Invalid credentials"]]

\* C1: once a refresh call presenting token T has succeeded, a later refresh
\* call presenting T (one that starts after that success) is not answered 200
\* and carries no tokens.
C1_SpentTokenNeverRedeemed ==
    (last.req.kind = "refresh" /\ last.req.replay)
        => (last.resp.status # 200 /\ "data" \notin DOMAIN last.resp.body)

\* C2: a refresh call during which a concurrent refresh call presenting the
\* same stored token was answered 200 is itself answered with the 401
\* invalid-refresh-token authentication failure.
C2_ConcurrentRefreshLoserGets401 ==
    (last.req.kind = "refresh" /\ last.req.rivalWon)
        => /\ last.resp.status = 401
           /\ last.resp.body.message \in {"Invalid refresh token",
                                          "Invalid or expired refresh token"}

\* C3: in no reachable state has a refresh call deleted the presented token's
\* row while the replacement token is not stored.
C3_RotationAtomic ==
    \A i \in 1..Len(reqs) :
        reqs[i].deleted =>
            \E x \in rows : x.token = reqs[i].tokens.refreshToken /\ x.userId = reqs[i].uid

\* C8: a (well-formed) register request whose email was registered when it
\* arrived is answered with the duplicate-email error, 400 'Email already in
\* use', and has written nothing.
C8_DuplicateEmailRejected ==
    (last.req.kind = "register" /\ last.req.regd /\ last.resp # ValidationFailed)
        => /\ last.resp.status = 400
           /\ last.resp.body.message = "Email already in use"
           /\ ~last.req.wrote

\* C9: every login that fails on the credentials (unknown email, inactive
\* identity or wrong password) is answered with one and the same response,
\* 401 'Invalid credentials'.
C9_LoginFailureUniform ==
    (last.req.kind = "login" /\ last.resp.status # 200 /\ last.resp # ValidationFailed)
        => last.resp = InvalidCredentials

\* a login for an existing but inactive identity has just failed
C9_Witness ==
    /\ last.req.kind = "login"
    /\ last.resp.status = 401
    /\ \E u \in UserByEmail(last.req.email) : ~u.active

\* the refresh token issued together with an access token
SessionRefresh(access) ==
    Sign([id |-> access.payload.id], RefreshSecret, RefreshTTL, access.iat)

\* C6: after a logout as the client sends it (bearer token, no body) that the
\* server answers with success, the refresh token of that session is no
\* longer stored on the server.
C6_LogoutRevokesSessionToken ==
    (last.req.kind = "logout" /\ last.req.token = NoToken /\ last.resp.status = 200)
        => SessionRefresh(last.req.bearer) \notin {x.token : x \in rows}

\* C7 (server side): a register with valid input and an unused email that is
\* answered with success has created an identity whose role is member.
C7_RegisterCreatesMember ==
    (last.req.kind = "register" /\ ~last.req.regd /\ last.resp.status = 201)
        => /\ UserByEmail(last.req.email) # {}
           /\ \A u \in UserByEmail(last.req.email) : u.role = MemberRole

\* C15: a logout request that authentication lets through is answered 200,
\* also when deleting the stored refresh token fails.
C15_LogoutAlways200 ==
    (last.req.kind = "logout" /\ last.resp.status # 401) => last.resp.status = 200

(***************************************************************************)
(* Properties of the client                                                *)
(***************************************************************************)
SessionCleared ==
    /\ session.token = NullTok
    /\ session.refreshToken = NullTok
    /\ session.user = NullUser
    /\ ~session.isAuthenticated
    /\ DOMAIN storage = {}

\* C4: when logout has settled, with success or with failure and whatever the
\* session was before, the session and the storage are cleared,
\* isAuthenticated is false and error is null.
C4_LogoutAlwaysClears ==
    event \in {"auth/logout/fulfilled", "auth/logout/rejected"}
        => SessionCleared /\ session.error = NoError

\* C5: when refresh has failed (no refresh token in the session, or the
\* server call rejected), token, refreshToken and user are null,
\* isAuthenticated is false, the storage holds neither token and error is set.
C5_RefreshFailureTearsDown ==
    event = "auth/refreshToken/rejected" => SessionCleared /\ session.error # NoError

\* a refresh whose server call was rejected has torn down a stored session
C5_Witness ==
    /\ event = "auth/refreshToken/rejected"
    /\ session.error = "Invalid refresh token"
    /\ SessionCleared

\* C10: the step that settles a failed login leaves isAuthenticated false and
\* error set, and writes no token: the storage and the session's token and
\* refreshToken are what they were before it.
C10_FailedLoginPersistsNothing ==
    [][(event' = "auth/login/rejected" /\ Len(thunks') < Len(thunks))
          => /\ ~session'.isAuthenticated
             /\ session'.error # NoError
             /\ storage' = storage
             /\ session'.token = session.token
             /\ session'.refreshToken = session.refreshToken]_vars

\* a login was refused for its credentials
C10_Witness ==
    /\ event = "auth/login/rejected"
    /\ session.error = "Invalid credentials"
    /\ ~session.isAuthenticated

(***************************************************************************)
(* Properties of the band routes                                           *)
(***************************************************************************)
\* the token is an access token generateTokens signs for an identity
IssuedByServer(token) ==
    \E u \in users : token = generateTokens(u, token.iat).accessToken

\* C11: on the membership-gated route, an authenticated caller whose token was
\* issued by generateTokens with role admin is let through to the handler, for
\* every bandId (also one without membership rows), by either isBandMember.
C11_AdminPassesMembership ==
    (/\ gate.pc = "done"
     /\ gate.route = GetBand
     /\ "predicate" \in gate.reached
     /\ IssuedByServer(gate.bearer)
     /\ gate.bearer.payload.role = "ADMIN")
        => "handler" \in gate.reached

C13_EvaluationOrder ==
    gate.pc = "done"
        => /\ ~gate.verified
                => gate.resp.status = 401 /\ gate.reached = {"authenticate"}
           /\ gate.denied
                => gate.resp.status = 403 /\ "handler" \notin gate.reached

\* C14: a typed error that a middleware or handler passes to next() is
\* answered with the status of its class (ValidationError 400, AuthError 401,
\* ForbiddenError 403, NotFoundError 404, ConflictError 409) in an envelope
\* with success = false and the error's message.
C14_TypedErrorStatus ==
    (/\ gate.pc = "done"
     /\ gate.thrown.name \in {"ValidationError", "AuthError", "ForbiddenError",
                              "NotFoundError", "ConflictError"})
        => /\ gate.resp.status = statusCode(gate.thrown.name)
           /\ gate.resp.body.success = FALSE
           /\ gate.resp.body.message = gate.thrown.message

\* C16: under every interleaving of the client's requests and their
\* responses, the storage holds the access-token key and the refresh-token
\* key together or neither of them.
C16_StorageKeysTogether ==
    ("token" \in DOMAIN storage) <=> ("refreshToken" \in DOMAIN storage)

\* the session and the storage after the thunk t has settled with outcome o
Settled(c, t, o) ==
    [session |-> thunkReduce(t.op, c.session, o), storage |-> thunkStorage(t.op, c.storage, o)]

\* C17: when two operations have been dispatched one after the other, the
\* session and the storage they leave are those of settling the first and
\* then the second, whichever of the two responses arrives first.
C17_DispatchOrder ==
    Len(thunks) >= 2 =>
        LET c == [session |-> session, storage |-> storage]
        IN  \A o1 \in Outcomes(thunks[1].op), o2 \in Outcomes(thunks[2].op) :
               Settled(Settled(c, thunks[2], o2), thunks[1], o1)
                 = Settled(Settled(c, thunks[1], o1), thunks[2], o2)

\* the action types of the three fulfilled reducers that decode a token
FulfilledWithToken ==
    {"auth/login/fulfilled", "auth/register/fulfilled", "auth/refreshToken/fulfilled"}

\* C18: when login, register or refresh is fulfilled with an access token
\* that cannot be decoded, the session holds the received token, has no
\* identity (user is null) and records the invalid-token error, whatever the
\* session was before.
C18_UndecodableTokenLeavesNoIdentity ==
    (event \in FulfilledWithToken /\ ~Decodable(session.token))
        => /\ session.user = NullUser
           /\ session.error = "Invalid token received"

\* the action types of the four thunks
ThunkEvents ==
    {"auth/" \o op \o "/" \o phase :
        op \in {"login", "register", "refreshToken", "logout"},
        phase \in {"pending", "fulfilled", "rejected"}}

\* C19 as stated: every change of the session is made by an action of
\* register, login, refresh or logout.
C19_OnlyFourTransitions ==
    [][session' # session => event' \in ThunkEvents]_vars

\* C19 as amended: token, refreshToken, isAuthenticated and isLoading are
\* changed by the actions of register, login, refresh and logout only; of the
\* slice's other actions clearError changes error alone and setUser changes
\* user alone.
C19_OthersChangeErrorOrUserAlone ==
    [][(session' # session /\ event' \notin ThunkEvents)
          => \/ event' = "auth/clearError" /\ session' = [session EXCEPT !.error = NoError]
             \/ event' = "auth/setUser" /\ session' = [session EXCEPT !.user = session'.user]]_vars

\* setUser gave an identity to a session without tokens while a request was
\* in flight
C19_Witness ==
    /\ event = "auth/setUser"
    /\ session.user # NullUser
    /\ session.token = NullTok
    /\ session.isLoading

\* the answer of the login handler to the registered identity's credentials
ServerLogin ==
    Outcome(OkWithUser(200, "Login successful", SampleUser, generateTokens(SampleUser, 0)))

\* C20: in the scenario register, login, expiry, 401, refresh, retry, the
\* refresh is made with the refresh token the client stored at login: when
\* login is fulfilled with the answer the login handler sends, the session
\* and the storage hold the access token and the refresh token of that answer.
C20_LoginStoresIssuedTokens ==
    [][\A i \in 1..Len(thunks) :
          SettleLogin(i, ServerLogin)
            => LET issued == generateTokens(SampleUser, 0)
               IN  /\ session'.token = issued.accessToken
                   /\ session'.refreshToken = issued.refreshToken
                   /\ GetItem(storage', "token") = issued.accessToken
                   /\ GetItem(storage', "refreshToken") = issued.refreshToken]_vars

(***************************************************************************)
(* Properties of the token codec and of the error responses                *)
(***************************************************************************)
\* C21: the access token that register or login issues for an identity
\* verifies, and its claims are that identity's public fields (id, email,
\* first and last name, role); the same token with another signature does not
\* verify.
C21_CodecRoundTrip ==
    (/\ last.req.kind \in {"register", "login"}
     /\ last.resp.status \in {200, 201})
        => LET issued == last.resp.body.data.accessToken
           IN  /\ Verify(issued, AccessSecret, now) = "ok"
               /\ issued.payload = last.resp.body.data.user
               /\ Verify([issued EXCEPT !.secret = Garbage.secret], AccessSecret, now) # "ok"

\* a token of the refresh kind (payload {id}) or of the access kind
IsRefreshToken(t) == DOMAIN t.payload = {"id"} /\ t.exp - t.iat = RefreshTTL
IsAccessToken(t) == "email" \in DOMAIN t.payload /\ t.exp - t.iat = AccessTTL

\* C22: a refresh token presented as the bearer token is never accepted by
\* authenticateUser (the request is answered 401 and does not reach the
\* handler), and an access token presented to the refresh endpoint is never
\* accepted (401, no rotation).
C22_KeySeparation ==
    /\ \A i \in 1..Len(reqs) :
          /\ reqs[i].kind = "logout" => ~IsRefreshToken(reqs[i].bearer)
          /\ reqs[i].kind = "refresh" => ~IsAccessToken(reqs[i].token)
    /\ (last.req.kind = "logout" /\ IsRefreshToken(last.req.bearer))
          => last.resp.status = 401
    /\ (last.req.kind = "refresh" /\ IsAccessToken(last.req.token))
          => last.resp.status = 401

\* a stored, unexpired refresh token was presented as the bearer token and
\* refused
C22_Witness ==
    /\ last.req.kind = "logout"
    /\ IsRefreshToken(last.req.bearer)
    /\ \E x \in rows : x.token = last.req.bearer /\ x.expiresAt > now
    /\ last.resp.status = 401

\* C23: when NODE_ENV is not 'development' (unset included), the body of an
\* error response has success = false, a message and at most the validation
\* errors: no stack trace and no internal error detail.
C23_NoInternalDetail ==
    (nodeEnv # "development" /\ last.resp.status >= 400)
        => /\ DOMAIN last.resp.body \subseteq {"success", "message", "errors"}
           /\ last.resp.body.success = FALSE

(***************************************************************************)
(* Properties of the client and the server together                        *)
(***************************************************************************)
\* C24: after a refresh() that the server answered 200, the refresh token in
\* the client's session and storage is the rotated one of that answer, the
\* one the server stores from then on.
C24_ClientHoldsRotatedToken ==
    [][\A i \in 1..Len(thunks) :
          LET rotated == generateTokens(SampleUser, 1)
          IN  SettleRefresh(i, Outcome(OkWithTokens(200, "Token refreshed successfully", rotated)))
                => /\ session'.refreshToken = rotated.refreshToken
                   /\ GetItem(storage', "refreshToken") = rotated.refreshToken]_vars

\* C25: a login or a refresh made for an identity that is inactive, and a
\* request bearing an inactive identity's access token, are answered 401; no
\* token is issued for them and the database is not written.
C25_InactiveGetsNoAccess ==
    /\ \A i \in 1..Len(reqs) :
          reqs[i].inactive => reqs[i].tokens = NoTokens /\ ~reqs[i].wrote
    /\ (last.req.inactive /\ last.req.kind \in {"login", "refresh", "logout"})
          => /\ last.resp.status = 401
             /\ "data" \notin DOMAIN last.resp.body
             /\ ~last.req.wrote

\* an inactive identity presented its stored, unexpired refresh token
C25_Witness ==
    /\ last.req.kind = "refresh"
    /\ last.req.inactive
    /\ \E x \in rows : x.token = last.req.token /\ x.expiresAt > now
    /\ last.resp.status = 401

(***************************************************************************)
(* Properties of the bands and their members                               *)
(***************************************************************************)
\* C26: no user owns two bands of the same name, whatever createBand and
\* updateBand requests have been served.
C26_UniqueBandNamePerOwner ==
    \A b1 \in bands, b2 \in bands :
        (b1.createdById = b2.createdById /\ b1.name = b2.name) => b1.id = b2.id


\* C27: in every reachable state the creator of every band is a member of
\* it; removeBandMember answers a request to remove the creator with
\* ValidationError and leaves the membership as it was.
C27_CreatorIsMember ==
    /\ \A b \in bands : \E m \in members : m.bandId = b.id /\ m.userId = b.createdById
    /\ (/\ gate.pc = "done"
        /\ gate.route = "DELETE /api/bands/:bandId/members/:userId"
        /\ "handler" \in gate.reached
        /\ \E b \in bands : b.id = gate.bandId /\ b.createdById = gate.target)
          => gate.thrown.name \in {"ValidationError", "NotFoundError"}

(***************************************************************************)
(* Properties of logout and of the session flags                           *)
(***************************************************************************)
\* C28: a step that answers a logout request removes from the refresh-token
\* store only rows of the authenticated caller that hold the token of the
\* request's body: another user's tokens stay, and without a token in the
\* body the store is unchanged.
C28_LogoutDeletesOwnOnly ==
    [][last'.req.kind = "logout"
          => \A x \in rows \ rows' :
                /\ x.userId = last'.req.bearer.payload.id
                /\ x.token = last'.req.token]_vars

\* user A logged out with a stored refresh token of user B in the body, and
\* that token is still stored
C28_Witness ==
    /\ last.req.kind = "logout"
    /\ last.resp.status = 200
    /\ last.req.token.payload.id # last.req.bearer.payload.id
    /\ \E x \in rows : x.token = last.req.token

\* C29: in every reachable state of the client session, isAuthenticated is
\* true exactly when the session holds an access token (token is neither null
\* nor undefined).
C29_AuthenticatedIffToken ==
    session.isAuthenticated <=> Truthy(session.token)

\* C30: isLoading is true while a dispatched login, register, refresh or
\* logout has not settled, several in flight included, and false once all of
\* them have settled.
C30_LoadingIffPending ==
    session.isLoading <=> Len(thunks) > 0

=============================================================================
